---- MODULE Spec2Model ----
(***************************************************************************)
(* Post-processing and visualisation helpers of the notebooks.             *)
(*                                                                         *)
(*  - "hello object detection" notebook: removal of the zero-only rows of  *)
(*    the model output and convert_result_to_image (threshold filter,      *)
(*    rescaling to the real image, 10-pixel clamp, drawing);               *)
(*  - "TensorFlow object detection" notebook: coco_labels_map,             *)
(*    visualize_inference_result and add_detection_box.                    *)
(*                                                                         *)
(* Conventions.  Confidences and scores are counted in hundredths          *)
(* (0.3 is 30).  Pixel coordinates of the detection notebook are integers. *)
(* A ratio real/resized is kept as the pair <<real, resized>> and a        *)
(* product corner * ratio is the exact rational, so int(corner * ratio) is *)
(* the quotient truncated toward zero.  Python's None is the empty tuple   *)
(* <<>> and a present value v is the 1-tuple <<v>>.  Python lists and      *)
(* arrays are indexed from 0 (At).                                         *)
(***************************************************************************)
EXTENDS Integers, Sequences, FiniteSets, TLC

VARIABLES
    \* ---- hello object detection notebook
    cpc,          \* position: "idle", "inferred", "loop", "returned", "ValueError"
    raw,          \* output of compiled_model: rows [x_min, y_min, x_max, y_max, conf]
    boxes,        \* the rows handed to convert_result_to_image
    shape,        \* <<real_y, real_x, resized_y, resized_x>>
    threshold,    \* argument threshold
    conf_labels,  \* argument conf_labels
    k,            \* number of rows of boxes the for loop has consumed
    rgb_image,    \* what has been drawn on rgb_image, in drawing order
    result,       \* return value of convert_result_to_image (<<>> before the return)
    mode,         \* how this call relates to the previous one: "fresh", "again", "back"
    prev,         \* the previous call (<<>> when there is none)
    bgr_image,    \* what has been drawn on the caller's bgr_image
    rgb_ref,      \* the buffer the name rgb_image refers to: 1 is bgr_image itself
    \* ---- TensorFlow object detection notebook
    vpc,          \* position: "start", "idle", "loop", "shown", "KeyError", "IndexError"
    coco_labels,  \* lines of the label file
    coco_labels_map,   \* dict built from coco_labels
    inference_result,  \* detection_boxes, detection_classes, detection_scores, num_detections
    image,        \* <<height, width>> of the original image
    detections_limit_arg,  \* argument detections_limit (<<>> is None)
    detections_limit,      \* the local detections_limit after line 473
    i,            \* loop variable of the rendering loop
    image_with_detection_boxex,  \* the calls of add_detection_box made on the copy
    shown,        \* what plt.imshow received (<<>> when it was not called)
    vreturn,      \* return value of visualize_inference_result (<<>> is None)
    events,       \* what the call has done so far, in order
    vmode,        \* "fresh", or "again": the previous call repeated with the same arguments
    vprev,        \* what the previous call showed (<<>> when there is none)
    image_buffer, \* what has been drawn on the caller's image
    copy_ref,     \* the buffer image_with_detection_boxex refers to: 1 is image itself
    \* ---- add_detection_box called on a buffer of the caller
    dpc,          \* position: "idle", "ready", "ValueError"
    heap,         \* the image buffers: heap[1] is the buffer passed to the first call
    canvas,       \* the buffer the chain holds: the one returned by the last call
    canvas_shape, \* image.shape of the buffers
    ncalls,       \* calls of add_detection_box that returned
    \* ---- hello object detection notebook, the cell downloading the model
    mpc,          \* position: "start", "cell", "bin", "done", "failed"
    model_dir,    \* the files present in base_model_dir
    downloads,    \* the files download_file was called for, in order
    printed,      \* whether the cell printed "already downloaded"
    runs,         \* how many times the cell was started
    \* ---- TensorFlow classification notebook
    tpc,          \* position: "start", "settings", "saved", "converted", "failed", "checked"
    tf_files,     \* the files present in model/
    message,      \* what the checking cell did: "", "exists", "mo_command"
    \* ---- BERT quantization notebook, the conversion cell
    bpc,          \* position: "start", "cell", "done"
    bert_files,   \* the files present in MODEL_DIR
    model,        \* the variable model: <<>> while unbound, <<"converted">> or <<"read">>
    conversions,  \* how many times convert_model was run
    bruns,        \* how many times the cell was started
    \* ---- DistilBERT sequence classification notebook
    spc,          \* position: "idle", "result", "returned"
    infer_result, \* result of infer_request.infer: the outputs, each <<logit 0, logit 1>>
    probability,  \* softmax of the last output, as infer computed it (<<>> before)
    infer_label   \* return value of infer (<<>> before the return)

cvars == <<cpc, raw, boxes, shape, threshold, conf_labels, k, rgb_image, result, mode, prev,
           bgr_image, rgb_ref>>
vvars == <<vpc, coco_labels, coco_labels_map, inference_result, image,
           detections_limit_arg, detections_limit, i, image_with_detection_boxex, shown,
           vreturn, events, vmode, vprev, image_buffer, copy_ref>>
dvars == <<dpc, heap, canvas, canvas_shape, ncalls>>
mvars == <<mpc, model_dir, downloads, printed, runs>>
tvars == <<tpc, tf_files, message>>
bvars == <<bpc, bert_files, model, conversions, bruns>>
svars == <<spc, infer_result, probability, infer_label>>
nvars == <<mvars, tvars, bvars, svars>>
vars == <<cvars, vvars, dvars, nvars>>

----------------------------------------------------------------------------
(* Bounds of the model *)

MaxBatch == 2     \* longest enumerated batch of the filter family
MaxCoord == 12    \* largest enumerated coordinate of the geometry family
MaxDet == 2       \* length of the padded detection arrays

(* Program constants *)

DefaultThreshold == 30   \* threshold=0.3
TopMargin == 10          \* max(corner_position * ratio_y, 10)
LabelStart == 1          \* enumerate(coco_labels, 1)

----------------------------------------------------------------------------
(* Python helpers *)

\* int(n / d) for d > 0: truncation toward zero
TruncDiv(n, d) == IF n >= 0 THEN n \div d ELSE -((-n) \div d)

\* element j (0-based) of a list
At(list, j) == list[j + 1]

Range(s) == {s[j] : j \in DOMAIN s}

SeqsUpTo(S, n) == UNION {[1..m -> S] : m \in 0..n}

Min(a, b) == IF a <= b THEN a ELSE b

----------------------------------------------------------------------------
(* hello object detection notebook *)

Conf(box) == box[Len(box)]                 \* conf = box[-1]
CoordsMutant(box) == SubSeq(box, 1, 4)
Coords(box) == SubSeq(box, 1, Len(box) - 1)   \* box[:-1]

\* boxes[~np.all(boxes == 0, axis=1)]
AllZeroMutant(box) == \A p \in 1..4 : box[p] = 0
AllZero(box) == \A p \in 1..Len(box) : box[p] = 0

RemoveZeroRowsMutant(rows) == SelectSeq(rows, LAMBDA box : Conf(box) # 0)
RemoveZeroRows(rows) == SelectSeq(rows, LAMBDA box : ~AllZero(box))

\* conf > threshold
PassesMutant(conf, t) == conf >= t
PassesInverted(conf, t) == conf < t
Passes(conf, t) == conf > t

\* int(max(corner_position * ratio_y, 10)): the ratio is <<real, resized>>
ClampYMutant(corner_position, real, resized) ==
    TruncDiv(corner_position * real, resized)
ClampY(corner_position, real, resized) ==
    IF corner_position * real < TopMargin * resized
    THEN TopMargin
    ELSE TruncDiv(corner_position * real, resized)

\* int(corner_position * ratio_x)
ScaleXMutant(corner_position, real, resized) ==
    TruncDiv(corner_position * resized, real)
ScaleX(corner_position, real, resized) ==
    TruncDiv(corner_position * real, resized)

\* the list comprehension of lines 809-813; idx is the 0-based position
CornerMutant(idx, corner_position, sh) ==
    IF idx = 1
    THEN ClampY(corner_position, sh[1], sh[3])
    ELSE IF idx = 3
         THEN TruncDiv(corner_position * sh[1], sh[3])
         ELSE ScaleX(corner_position, sh[2], sh[4])
Corner(idx, corner_position, sh) ==
    IF idx % 2 = 1
    THEN ClampY(corner_position, sh[1], sh[3])
    ELSE ScaleX(corner_position, sh[2], sh[4])

Rescale(box, sh) == [p \in 1..4 |-> Corner(p - 1, box[p], sh)]

\* cv2.rectangle and, with conf_labels, cv2.putText at (x_min, y_min - 10)
Draw(img, idx, box, sh, labels) ==
    LET r == Rescale(box, sh)
    IN  Append(img, [idx  |-> idx,
                     rect |-> r,
                     conf |-> Conf(box),
                     text |-> IF labels THEN <<r[1], r[2] - 10>> ELSE <<>>])

\* ---- inputs
Confs == {0, 30, 40, 90}
Thresholds == {0, 30, 40}
Dims == {10, 15, 30}
Span == 5

FilterRows ==
    {<<b[1], b[2], b[3], b[4], c>> : b \in {<<0, 0, 0, 0>>, <<10, 10, 50, 50>>}, c \in Confs}
FilterBatches == SeqsUpTo(FilterRows, MaxBatch)
FilterShapes == {<<20, 20, 10, 10>>}

GeomBatches ==
    {<< <<a, b, a + Span, b + Span, 90>> >> : a \in 0..MaxCoord, b \in 0..MaxCoord}
GeomShapes == {<<ry, rx, sy, sx>> : ry \in Dims, rx \in Dims, sy \in Dims, sx \in Dims}

\* the scenarios of the specification's section 8
ScenarioBatch ==
    << <<10, 10, 50, 50, 90>>, <<10, 10, 50, 50, 40>>,
       <<10, 10, 50, 50, 10>>, <<0, 0, 0, 0, 0>> >>
ScenarioInputs ==
    { <<ScenarioBatch, <<510, 510, 255, 255>> >>,
      << << <<10, 2, 50, 50, 90>> >>, <<480, 640, 480, 640>> >> }

\* rows of the wrong length: one column too many before the confidence
MalformedRows == {<<10, 10, 50, 50, 7, c>> : c \in {10, 90}}
MalformedBatches == [1..1 -> MalformedRows] \cup [1..2 -> MalformedRows]

Inputs ==
    (FilterBatches \X FilterShapes) \cup (GeomBatches \X GeomShapes) \cup ScenarioInputs
        \cup (MalformedBatches \X FilterShapes)

CallArgs(rows) ==
    IF rows \in GeomBatches
    THEN {DefaultThreshold} \X BOOLEAN
    ELSE (Thresholds \cup {DefaultThreshold}) \X BOOLEAN

ThisCall ==
    [boxes |-> boxes, shape |-> shape, threshold |-> threshold, image |-> rgb_image]

\* a for loop is left when it has consumed all n elements of its sequence
\* (range(n) is empty for n <= 0)
ExhaustedMutant(j, n) == TRUE
Exhausted(j, n) == j >= n

\* np.copy(a) and cv2.cvtColor(src, code) give a new buffer with the content of
\* the one passed: bufs is the sequence of the buffers, ref the one passed
NpCopyMutant(bufs, ref) == [heap |-> bufs, ret |-> ref]
NpCopy(bufs, ref) == [heap |-> Append(bufs, bufs[ref]), ret |-> Len(bufs) + 1]
CvtColor(bufs, ref) == [heap |-> Append(bufs, bufs[ref]), ret |-> Len(bufs) + 1]

\* cells "Load an Image" and "Do Inference": the model output and the two images
InferenceFrom(inputs) ==
    /\ cpc = "idle"
    /\ \E in \in inputs :
         /\ raw' = in[1]
         /\ boxes' = RemoveZeroRows(in[1])
         /\ shape' = in[2]
    /\ cpc' = "inferred"
    /\ UNCHANGED <<threshold, conf_labels, k, rgb_image, result, mode, prev,
                   bgr_image, rgb_ref>>
    /\ UNCHANGED <<vvars, dvars, nvars>>

Inference == InferenceFrom(Inputs)

\* the same cells with the batches of several rows only
BatchInputs ==
    (FilterBatches \X FilterShapes) \cup ScenarioInputs \cup (MalformedBatches \X FilterShapes)
InferenceBatches == InferenceFrom(BatchInputs)

\* convert_result_to_image(image, resized_image, boxes, threshold, conf_labels)
ConvertCall ==
    /\ cpc = "inferred"
    /\ \E a \in CallArgs(raw) :
         /\ threshold' = a[1]
         /\ conf_labels' = a[2]
    /\ k' = 0
    /\ rgb_image' = <<>>
    /\ result' = <<>>
    /\ rgb_ref' = CvtColor(<<bgr_image>>, 1).ret
    /\ mode' = "fresh"
    /\ cpc' = "loop"
    /\ UNCHANGED <<raw, boxes, shape, prev, bgr_image>>
    /\ UNCHANGED <<vvars, dvars, nvars>>

\* one iteration of "for box in boxes"
ConvertStep ==
    /\ cpc = "loop"
    /\ k < Len(boxes)
    /\ LET box == At(boxes, k)
       IN  IF Passes(Conf(box), threshold)
           THEN IF Len(Coords(box)) # 4
                THEN \* (x_min, y_min, x_max, y_max) = [...] raises ValueError
                     /\ cpc' = "ValueError"
                     /\ UNCHANGED <<k, rgb_image, bgr_image>>
                ELSE /\ rgb_image' = Draw(rgb_image, k, box, shape, conf_labels)
                     /\ bgr_image' = IF rgb_ref = 1 THEN rgb_image' ELSE bgr_image
                     /\ k' = k + 1
                     /\ cpc' = cpc
           ELSE /\ k' = k + 1
                /\ UNCHANGED <<cpc, rgb_image, bgr_image>>
    /\ UNCHANGED <<raw, boxes, shape, threshold, conf_labels, result, mode, prev, rgb_ref>>
    /\ UNCHANGED <<vvars, dvars, nvars>>

\* return rgb_image
ConvertReturn ==
    /\ cpc = "loop"
    /\ Exhausted(k, Len(boxes))
    /\ result' = <<rgb_image>>
    /\ cpc' = "returned"
    /\ UNCHANGED <<raw, boxes, shape, threshold, conf_labels, k, rgb_image, mode, prev,
                   bgr_image, rgb_ref>>
    /\ UNCHANGED <<vvars, dvars, nvars>>

\* the same boxes and images converted again with a threshold that is not lower
ConvertAgain ==
    /\ cpc = "returned"
    /\ mode = "fresh"
    /\ \E t \in Thresholds :
         /\ t >= threshold
         /\ threshold' = t
    /\ prev' = <<ThisCall>>
    /\ k' = 0
    /\ rgb_image' = <<>>
    /\ result' = <<>>
    /\ rgb_ref' = CvtColor(<<bgr_image>>, 1).ret
    /\ mode' = "again"
    /\ cpc' = "loop"
    /\ UNCHANGED <<raw, boxes, shape, conf_labels, bgr_image>>
    /\ UNCHANGED <<vvars, dvars, nvars>>

\* the drawn boxes converted back: the two images exchanged
ConvertBack ==
    /\ cpc = "returned"
    /\ mode = "fresh"
    /\ prev' = <<ThisCall>>
    /\ boxes' = [j \in 1..Len(rgb_image) |-> rgb_image[j].rect \o <<rgb_image[j].conf>>]
    /\ shape' = <<shape[3], shape[4], shape[1], shape[2]>>
    /\ k' = 0
    /\ rgb_image' = <<>>
    /\ result' = <<>>
    /\ rgb_ref' = CvtColor(<<bgr_image>>, 1).ret
    /\ mode' = "back"
    /\ cpc' = "loop"
    /\ UNCHANGED <<raw, threshold, conf_labels, bgr_image>>
    /\ UNCHANGED <<vvars, dvars, nvars>>

----------------------------------------------------------------------------
(* TensorFlow object detection notebook *)

\* dict(enumerate(list, start))
EnumerateMutant(list, start) ==
    [key \in 0..(Len(list) - 1) |-> At(list, key)]
Enumerate(list, start) ==
    [key \in start..(start + Len(list) - 1) |-> At(list, key - start)]

\* labels_map[key]: <<name>>, or <<>> where Python raises KeyError
LookupMutant(labels_map, key) ==
    IF key \in DOMAIN labels_map THEN <<labels_map[key]>> ELSE <<"unknown">>
Lookup(labels_map, key) ==
    IF key \in DOMAIN labels_map THEN <<labels_map[key]>> ELSE <<>>

\* int(min(detections_limit, num_detections[0]) if detections_limit is not None
\*     else num_detections[0])
LimitTruthyMutant(limit, num_detections) ==
    IF limit # <<>> /\ limit[1] # 0 THEN Min(limit[1], num_detections) ELSE num_detections
LimitMutant(limit, num_detections) ==
    IF limit # <<>> THEN limit[1] ELSE num_detections
Limit(limit, num_detections) ==
    IF limit # <<>> THEN Min(limit[1], num_detections) ELSE num_detections

\* detection_boxes[::] * [height, width, height, width]; the boxes are in tenths
\* of the image, so the products are tenths of a pixel
NormalizeMutant(box, img) == box
Normalize(box, img) == <<box[1] * img[1], box[2] * img[2], box[3] * img[1], box[4] * img[2]>>

\* int(v) of a value in tenths of a pixel
IntTenths(v) == TruncDiv(v, 10)

\* Python's round(n / d) for n >= 0, d > 0: to the nearest integer, a tie to the even one
RoundHalfEven(n, d) ==
    LET q == n \div d
        r == n % d
    IN  IF 2 * r < d THEN q
        ELSE IF 2 * r > d THEN q + 1
        ELSE IF q % 2 = 0 THEN q ELSE q + 1

\* line_thickness = round(0.002 * (image.shape[0] + image.shape[1]) / 2) + 1
LineThicknessMutant(sh) == RoundHalfEven(sh[1] + sh[2], 1000)
LineThickness(sh) == RoundHalfEven(sh[1] + sh[2], 1000) + 1

\* font_thickness = max(line_thickness - 1, 1)
FontThickness(line_thickness) == IF line_thickness - 1 > 1 THEN line_thickness - 1 ELSE 1

\* label values: None, the empty string, or the text <<name, score>> of
\* f"{detected_class_name} {score:.2f}"
NoLabel == <<>>
EmptyLabel == <<"">>

\* if label:
Truthy(label) == label # NoLabel /\ label # EmptyLabel

\* cv2.getTextSize(...)[0]: <<width, height>>; it grows with the font scale
\* line_thickness / 3 and the width with the number of parts of the text
TextSize(label, line_thickness) == <<12 * Len(label) * line_thickness, 7 * line_thickness>>

FontColor == <<255, 255, 255>>

\* the drawing calls of add_detection_box, in the order the function makes them
DrawOpsMutant(point1, point2, label, box_color, line_thickness) ==
    LET text_size == TextSize(label, line_thickness)
    IN  IF Truthy(label)
        THEN << [op |-> "putText", pt1 |-> <<point1[1], point1[2] - 3>>,
                 pt2 |-> <<point1[1], point1[2] - 3>>, color |-> FontColor,
                 thickness |-> FontThickness(line_thickness)],
                [op |-> "filled", pt1 |-> point1,
                 pt2 |-> <<point1[1] + text_size[1], point1[2] - text_size[2] - 3>>,
                 color |-> box_color, thickness |-> 0 - 1],
                [op |-> "rectangle", pt1 |-> point1, pt2 |-> point2,
                 color |-> box_color, thickness |-> line_thickness] >>
        ELSE << [op |-> "rectangle", pt1 |-> point1, pt2 |-> point2,
                 color |-> box_color, thickness |-> line_thickness] >>
DrawOpsTextColorMutant(point1, point2, label, box_color, line_thickness) ==
    LET text_size == TextSize(label, line_thickness)
        outline == [op |-> "rectangle", pt1 |-> point1, pt2 |-> point2,
                    color |-> box_color, thickness |-> line_thickness]
    IN  IF Truthy(label)
        THEN << outline,
                [op |-> "filled", pt1 |-> point1,
                 pt2 |-> <<point1[1] + text_size[1], point1[2] - text_size[2] - 3>>,
                 color |-> box_color, thickness |-> 0 - 1],
                [op |-> "putText", pt1 |-> <<point1[1], point1[2] - 3>>,
                 pt2 |-> <<point1[1], point1[2] - 3>>, color |-> box_color,
                 thickness |-> FontThickness(line_thickness)] >>
        ELSE << outline >>
DrawOps(point1, point2, label, box_color, line_thickness) ==
    LET text_size == TextSize(label, line_thickness)
        outline == [op |-> "rectangle", pt1 |-> point1, pt2 |-> point2,
                    color |-> box_color, thickness |-> line_thickness]
    IN  IF Truthy(label)
        THEN << outline,
                [op |-> "filled", pt1 |-> point1,
                 pt2 |-> <<point1[1] + text_size[1], point1[2] - text_size[2] - 3>>,
                 color |-> box_color, thickness |-> 0 - 1],
                [op |-> "putText", pt1 |-> <<point1[1], point1[2] - 3>>,
                 pt2 |-> <<point1[1], point1[2] - 3>>, color |-> FontColor,
                 thickness |-> FontThickness(line_thickness)] >>
        ELSE << outline >>

\* what one call of add_detection_box draws; the box is [ymin, xmin, ymax, xmax]
\* in tenths of a pixel, sh is image.shape, box_color the three random.randint
BoxDrawing(box, sh, label, box_color) ==
    LET point1 == <<IntTenths(box[2]), IntTenths(box[1])>>
        point2 == <<IntTenths(box[4]), IntTenths(box[3])>>
    IN  [box    |-> box,
         point1 |-> point1,
         point2 |-> point2,
         label  |-> label,
         color  |-> box_color,
         line_thickness |-> LineThickness(sh),
         ops    |-> DrawOps(point1, point2, label, box_color, LineThickness(sh))]

\* the content of the buffer image after add_detection_box(box, image, label)
add_detection_boxMutant(box, img, sh, label, box_color) ==
    IF Len(label) = 2 /\ label[2] <= DefaultThreshold
    THEN img
    ELSE Append(img, BoxDrawing(box, sh, label, box_color))
add_detection_box(box, img, sh, label, box_color) ==
    Append(img, BoxDrawing(box, sh, label, box_color))

\* the call on the buffers: bufs is the sequence of the buffers, ref the one
\* passed as image.  "ymin, xmin, ymax, xmax = box" raises ValueError unless the
\* box has 4 elements; otherwise the drawing goes into the buffer passed and
\* that buffer is returned
CallAddDetectionBoxMutant(bufs, ref, sh, box, label, box_color) ==
    IF Len(box) # 4
    THEN [heap |-> bufs, ret |-> 0, error |-> "ValueError"]
    ELSE [heap |-> Append(bufs, add_detection_box(box, bufs[ref], sh, label, box_color)),
          ret |-> Len(bufs) + 1, error |-> ""]
CallAddDetectionBox(bufs, ref, sh, box, label, box_color) ==
    IF Len(box) # 4
    THEN [heap |-> bufs, ret |-> 0, error |-> "ValueError"]
    ELSE [heap |-> [bufs EXCEPT ![ref] = add_detection_box(box, bufs[ref], sh, label, box_color)],
          ret |-> ref, error |-> ""]

\* labels_map[key] reads the dict: the dict after the lookup
MapAfterLookupMutant(labels_map, key) ==
    IF key \in DOMAIN labels_map
    THEN labels_map
    ELSE [j \in DOMAIN labels_map \cup {key} |->
              IF j \in DOMAIN labels_map THEN labels_map[j] ELSE "unknown"]
MapAfterLookup(labels_map, key) == labels_map

\* visualize_inference_result has no return statement: it returns None
ReturnValueMutant(img) == <<img>>
ReturnValue(img) == <<>>

\* what one iteration does, in order: the lookup of line 491, then the call of
\* add_detection_box of line 494 (not reached when the lookup raises)
StepEventsMutant(j, found) ==
    IF found
    THEN << [ev |-> "render", idx |-> j], [ev |-> "lookup", idx |-> j] >>
    ELSE << [ev |-> "lookup", idx |-> j] >>
StepEvents(j, found) ==
    IF found
    THEN << [ev |-> "lookup", idx |-> j], [ev |-> "render", idx |-> j] >>
    ELSE << [ev |-> "lookup", idx |-> j] >>

\* ---- inputs
LabelFiles == {<<"cat", "dog">>, <<"person">>}
ClassIds == {0, 1, 2, 3}
Scores == {20, 90}
VisBoxes == {<<1, 2, 6, 9>>}
ImageShapes == {<<48, 64>>, <<200, 300>>, <<700, 800>>, <<1000, 2000>>}
Colors == {<<0, 0, 0>>, <<255, 0, 128>>}

Detections == [box : VisBoxes, class : ClassIds, score : Scores]

\* the engine's arrays: MaxDet rows ordered by descending score
DetectionArrays ==
    {d \in [1..MaxDet -> Detections] :
        \A p \in 1..(MaxDet - 1) : d[p].score >= d[p + 1].score}

InferenceResults ==
    {[detection_boxes   |-> [p \in 1..MaxDet |-> d[p].box],
      detection_classes |-> [p \in 1..MaxDet |-> d[p].class],
      detection_scores  |-> [p \in 1..MaxDet |-> d[p].score],
      num_detections    |-> n] : d \in DetectionArrays, n \in 0..MaxDet}

LimitArgs == {<<>>} \cup {<<n>> : n \in (0 - 1)..(MaxDet + 1)}

\* the cell building coco_labels_map
BuildLabelsMap ==
    /\ vpc = "start"
    /\ \E labels \in LabelFiles :
         /\ coco_labels' = labels
         /\ coco_labels_map' = Enumerate(labels, LabelStart)
    /\ vpc' = "idle"
    /\ UNCHANGED <<inference_result, image, detections_limit_arg, detections_limit, i,
                   image_with_detection_boxex, shown, vreturn, events, vmode, vprev,
                   image_buffer, copy_ref>>
    /\ UNCHANGED <<cvars, dvars, nvars>>

\* visualize_inference_result(...) up to the loop: the limit, the normalized
\* boxes and the copy of the image
VisualizeCallOn(images) ==
    /\ vpc = "idle"
    /\ \E res \in InferenceResults, img \in images, limit \in LimitArgs :
         /\ inference_result' = res
         /\ image' = img
         /\ detections_limit_arg' = limit
         /\ detections_limit' = Limit(limit, res.num_detections)
    /\ LET copy == NpCopy(<<image_buffer>>, 1)
       IN  /\ copy_ref' = copy.ret
           /\ image_with_detection_boxex' = copy.heap[copy.ret]
    /\ i' = 0
    /\ shown' = <<>>
    /\ vreturn' = <<>>
    /\ events' = << [ev |-> "normalize", idx |-> 0 - 1] >>
    /\ vmode' = "fresh"
    /\ vprev' = <<>>
    /\ vpc' = "loop"
    /\ UNCHANGED <<coco_labels, coco_labels_map, image_buffer>>
    /\ UNCHANGED <<cvars, dvars, nvars>>

VisualizeCall == VisualizeCallOn(ImageShapes)

\* the same call on the image of one size
VisualizeCallOneSize == VisualizeCallOn({<<200, 300>>})

\* one iteration of "for i in range(detections_limit)"
VisualizeStep ==
    /\ vpc = "loop"
    /\ i < detections_limit
    /\ IF i >= Len(inference_result.detection_classes)
       THEN /\ vpc' = "IndexError"
            /\ UNCHANGED <<i, image_with_detection_boxex, coco_labels_map, events,
                           image_buffer>>
       ELSE LET class == At(inference_result.detection_classes, i)
                detected_class_name == Lookup(coco_labels_map, class)
                score == At(inference_result.detection_scores, i)
                box == Normalize(At(inference_result.detection_boxes, i), image)
            IN  /\ coco_labels_map' = MapAfterLookup(coco_labels_map, class)
                /\ events' = events \o StepEvents(i, detected_class_name # <<>>)
                /\ IF detected_class_name = <<>>
                   THEN /\ vpc' = "KeyError"
                        /\ UNCHANGED <<i, image_with_detection_boxex, image_buffer>>
                   ELSE /\ \E box_color \in Colors :
                             LET bufs == IF copy_ref = 1
                                         THEN <<image_buffer>>
                                         ELSE <<image_buffer, image_with_detection_boxex>>
                                 call == CallAddDetectionBox(
                                             bufs, copy_ref, image, box,
                                             <<detected_class_name[1], score>>, box_color)
                             IN  /\ image_with_detection_boxex' = call.heap[copy_ref]
                                 /\ image_buffer' = call.heap[1]
                                 /\ vpc' = IF call.error = "" THEN vpc ELSE call.error
                        /\ i' = i + 1
    /\ UNCHANGED <<coco_labels, inference_result, image,
                   detections_limit_arg, detections_limit, shown, vreturn, vmode, vprev,
                   copy_ref>>
    /\ UNCHANGED <<cvars, dvars, nvars>>

\* plt.imshow(image_with_detection_boxex), and the end of the function
VisualizeShow ==
    /\ vpc = "loop"
    /\ Exhausted(i, detections_limit)
    /\ shown' = <<image_with_detection_boxex>>
    /\ vreturn' = ReturnValue(image_with_detection_boxex)
    /\ vpc' = "shown"
    /\ UNCHANGED <<coco_labels, coco_labels_map, inference_result, image,
                   detections_limit_arg, detections_limit, i, image_with_detection_boxex,
                   events, vmode, vprev, image_buffer, copy_ref>>
    /\ UNCHANGED <<cvars, dvars, nvars>>

\* the cell run again: the same call with the same arguments
VisualizeAgain ==
    /\ vpc = "shown"
    /\ vmode = "fresh"
    /\ vprev' = shown
    /\ vmode' = "again"
    /\ detections_limit' = Limit(detections_limit_arg, inference_result.num_detections)
    /\ LET copy == NpCopy(<<image_buffer>>, 1)
       IN  /\ copy_ref' = copy.ret
           /\ image_with_detection_boxex' = copy.heap[copy.ret]
    /\ i' = 0
    /\ shown' = <<>>
    /\ vreturn' = <<>>
    /\ events' = << [ev |-> "normalize", idx |-> 0 - 1] >>
    /\ vpc' = "loop"
    /\ UNCHANGED <<coco_labels, coco_labels_map, inference_result, image, detections_limit_arg,
                   image_buffer>>
    /\ UNCHANGED <<cvars, dvars, nvars>>

\* ---- add_detection_box called directly, each call on the buffer the last returned
DirectBoxes == {<<10, 20, 60, 90>>, <<10, 20, 60>>, <<10, 20, 60, 90, 5>>}
DirectLabels == {NoLabel, EmptyLabel, <<"cat", 90>>}

\* image = np.zeros(...): the buffer of the caller
NewCanvas ==
    /\ dpc = "idle"
    /\ \E sh \in ImageShapes : canvas_shape' = sh
    /\ heap' = << <<>> >>
    /\ canvas' = 1
    /\ ncalls' = 0
    /\ dpc' = "ready"
    /\ UNCHANGED <<cvars, vvars, nvars>>

\* image = add_detection_box(box, image, label)
AddBoxCall ==
    /\ dpc = "ready"
    /\ ncalls < MaxDet
    /\ \E box \in DirectBoxes, label \in DirectLabels, box_color \in Colors :
         LET call == CallAddDetectionBox(heap, canvas, canvas_shape, box, label, box_color)
         IN  /\ heap' = call.heap
             /\ IF call.error = ""
                THEN /\ canvas' = call.ret
                     /\ ncalls' = ncalls + 1
                     /\ dpc' = dpc
                ELSE /\ dpc' = call.error
                     /\ UNCHANGED <<canvas, ncalls>>
    /\ UNCHANGED canvas_shape
    /\ UNCHANGED <<cvars, vvars, nvars>>

CInit ==
    /\ cpc = "idle"
    /\ raw = <<>>
    /\ boxes = <<>>
    /\ shape = <<1, 1, 1, 1>>
    /\ threshold = DefaultThreshold
    /\ conf_labels = TRUE
    /\ k = 0
    /\ rgb_image = <<>>
    /\ result = <<>>
    /\ mode = "fresh"
    /\ prev = <<>>
    /\ bgr_image = <<>>
    /\ rgb_ref = 0

VInit ==
    /\ vpc = "start"
    /\ coco_labels = <<>>
    /\ coco_labels_map = <<>>
    /\ inference_result = <<>>
    /\ image = <<1, 1>>
    /\ detections_limit_arg = <<>>
    /\ detections_limit = 0
    /\ i = 0
    /\ image_with_detection_boxex = <<>>
    /\ shown = <<>>
    /\ vreturn = <<>>
    /\ events = <<>>
    /\ vmode = "fresh"
    /\ vprev = <<>>
    /\ image_buffer = <<>>
    /\ copy_ref = 0

DInit ==
    /\ dpc = "idle"
    /\ heap = <<>>
    /\ canvas = 0
    /\ canvas_shape = <<1, 1>>
    /\ ncalls = 0

----------------------------------------------------------------------------
(* hello object detection notebook: the cell that downloads the model *)

MaxRuns == 2

model_xml_name == "horizontal-text-detection-0001.xml"
model_bin_name == "horizontal-text-detection-0001.bin"
ModelFiles == {model_xml_name, model_bin_name}

\* path.exists()
Exists(dir, name) == name \in dir

\* download_file(url, filename, directory), when it returns
DownloadFile(dir, name) == dir \cup {name}

\* what base_model_dir holds when the notebook is opened
ModelDir ==
    /\ mpc = "start"
    /\ \E dir \in SUBSET ModelFiles : model_dir' = dir
    /\ mpc' = "cell"
    /\ runs' = 1
    /\ UNCHANGED <<downloads, printed>>
    /\ UNCHANGED <<cvars, vvars, dvars, tvars, bvars, svars>>

\* "if not model_xml_path.exists()": the first download, or the message
DownloadCell ==
    /\ mpc = "cell"
    /\ IF ~Exists(model_dir, model_xml_name)
       THEN \/ /\ model_dir' = DownloadFile(model_dir, model_xml_name)
               /\ downloads' = Append(downloads, model_xml_name)
               /\ mpc' = "bin"
               /\ UNCHANGED printed
            \/ \* download_file raises: the cell ends
               /\ downloads' = Append(downloads, model_xml_name)
               /\ mpc' = "failed"
               /\ UNCHANGED <<model_dir, printed>>
       ELSE /\ printed' = TRUE
            /\ mpc' = "done"
            /\ UNCHANGED <<model_dir, downloads>>
    /\ UNCHANGED runs
    /\ UNCHANGED <<cvars, vvars, dvars, tvars, bvars, svars>>

\* the second download_file of the cell
DownloadBin ==
    /\ mpc = "bin"
    /\ downloads' = Append(downloads, model_bin_name)
    /\ \/ /\ model_dir' = DownloadFile(model_dir, model_bin_name)
          /\ mpc' = "done"
       \/ \* download_file raises: the cell ends
          /\ mpc' = "failed"
          /\ UNCHANGED model_dir
    /\ UNCHANGED <<printed, runs>>
    /\ UNCHANGED <<cvars, vvars, dvars, tvars, bvars, svars>>

\* the cell run again
DownloadAgain ==
    /\ mpc \in {"done", "failed"}
    /\ runs < MaxRuns
    /\ runs' = runs + 1
    /\ printed' = FALSE
    /\ mpc' = "cell"
    /\ UNCHANGED <<model_dir, downloads>>
    /\ UNCHANGED <<cvars, vvars, dvars, tvars, bvars, svars>>

MInit ==
    /\ mpc = "start"
    /\ model_dir = {}
    /\ downloads = <<>>
    /\ printed = FALSE
    /\ runs = 0

----------------------------------------------------------------------------
(* TensorFlow classification notebook: conversion and the check that follows *)

ir_path == "model/v3-small_224_1.0_float.xml"

\* serialize(model, path) writes the IR file
SerializeMutant(files, path) == files
Serialize(files, path) == files \cup {path}

\* cell "Settings": what model/ holds when the notebook is opened
Settings ==
    /\ tpc = "start"
    /\ \E files \in SUBSET {ir_path} : tf_files' = files
    /\ tpc' = "settings"
    /\ UNCHANGED message
    /\ UNCHANGED <<cvars, vvars, dvars, mvars, bvars, svars>>

\* cell "Download model": model.save(model_path)
SaveModel ==
    /\ tpc = "settings"
    /\ tpc' = "saved"
    /\ UNCHANGED <<tf_files, message>>
    /\ UNCHANGED <<cvars, vvars, dvars, mvars, bvars, svars>>

\* ov_model = mo.convert_model(...); serialize(ov_model, ir_path)
ConvertCell ==
    /\ tpc = "saved"
    /\ \/ /\ tf_files' = Serialize(tf_files, ir_path)
          /\ tpc' = "converted"
       \/ \* mo.convert_model raises: the run of the notebook stops
          /\ tpc' = "failed"
          /\ UNCHANGED tf_files
    /\ UNCHANGED message
    /\ UNCHANGED <<cvars, vvars, dvars, mvars, bvars, svars>>

\* "if not ir_path.exists(): ! $mo_command  else: print(... already exists.)"
CheckCell ==
    /\ tpc = "converted"
    /\ message' = IF ~Exists(tf_files, ir_path) THEN "mo_command" ELSE "exists"
    /\ tpc' = "checked"
    /\ UNCHANGED tf_files
    /\ UNCHANGED <<cvars, vvars, dvars, mvars, bvars, svars>>

TInit ==
    /\ tpc = "start"
    /\ tf_files = {}
    /\ message = ""

NextClassification ==
    \/ Settings
    \/ SaveModel
    \/ ConvertCell
    \/ CheckCell

----------------------------------------------------------------------------
(* BERT quantization notebook: the conversion cell *)

ir_model_xml == "model/bert_mrpc.xml"

\* the if statement of the cell: the value of model, the files afterwards and
\* whether convert_model was run
ConvertOnceMutant(files, path) ==
    [model |-> "converted", files |-> Serialize(files, path), converted |-> TRUE]
ConvertOnce(files, path) ==
    IF ~Exists(files, path)
    THEN [model |-> "converted", files |-> Serialize(files, path), converted |-> TRUE]
    ELSE [model |-> "read", files |-> files, converted |-> FALSE]

\* what MODEL_DIR holds when the notebook is opened
BertDir ==
    /\ bpc = "start"
    /\ \E files \in SUBSET {ir_model_xml} : bert_files' = files
    /\ bpc' = "cell"
    /\ bruns' = 1
    /\ UNCHANGED <<model, conversions>>
    /\ UNCHANGED <<cvars, vvars, dvars, mvars, tvars, svars>>

\* the cell, from MAX_SEQ_LENGTH to the if statement
BertCell ==
    /\ bpc = "cell"
    /\ LET cell == ConvertOnce(bert_files, ir_model_xml)
       IN  /\ model' = <<cell.model>>
           /\ bert_files' = cell.files
           /\ conversions' = IF cell.converted THEN conversions + 1 ELSE conversions
    /\ bpc' = "done"
    /\ UNCHANGED bruns
    /\ UNCHANGED <<cvars, vvars, dvars, mvars, tvars, svars>>

\* the cell run again in the same session
BertAgain ==
    /\ bpc = "done"
    /\ bruns < MaxRuns + 1
    /\ bruns' = bruns + 1
    /\ bpc' = "cell"
    /\ UNCHANGED <<bert_files, model, conversions>>
    /\ UNCHANGED <<cvars, vvars, dvars, mvars, tvars, svars>>

BInit ==
    /\ bpc = "start"
    /\ bert_files = {}
    /\ model = <<>>
    /\ conversions = 0
    /\ bruns = 0

NextBert ==
    \/ BertDir
    \/ BertCell
    \/ BertAgain

----------------------------------------------------------------------------
(* DistilBERT sequence classification notebook: softmax and infer.          *)
(* The logits are float32 numbers, counted here in units of 2^-27; the      *)
(* values of np.exp and the sums in units of 2^-24 (the spacing of float32  *)
(* below 1), the quotients in units of 2^-26.                               *)

MaxFine == 13     \* largest logit of the near-tie family, in units of 2^-27
MaxWhole == 3     \* largest logit of the family of whole numbers

Whole == 134217728    \* 1.0 in units of 2^-27
One == 16777216       \* 1.0 in units of 2^-24
Half == 33554432      \* 0.5 in units of 2^-26

\* float32 exp(-n) for n = 0, 1, 2, ..., rounded to the unit 2^-24
ExpTable ==
    <<16777216, 6171993, 2270549, 835288, 307285, 113044, 41587, 15299, 5628, 2070, 762>>

\* np.exp(x) in float32 for x = -d * 2^-27: 1 - d * 2^-27 rounded to the
\* spacing 2^-24 when d is small, the table when d is a whole number
ExpF32(d) ==
    CASE d <= 29 -> One - ((d + 3) \div 8)
      [] d > 29 /\ d % Whole = 0 -> ExpTable[(d \div Whole) + 1]

\* a float32 sum between 1 and 2: rounded to the spacing 2^-23, halves to even
RoundSum(sum) ==
    IF sum % 2 = 0 THEN sum
    ELSE IF (sum + 1) % 4 = 0 THEN sum + 1 ELSE sum - 1

\* the first n binary digits of r / d for r < d, and the remainder
RECURSIVE LongDiv(_, _, _, _)
LongDiv(r, d, n, q) ==
    IF n = 0 THEN <<q, r>>
    ELSE IF 2 * r >= d
         THEN LongDiv(2 * r - d, d, n - 1, 2 * q + 1)
         ELSE LongDiv(2 * r, d, n - 1, 2 * q)

\* q cut to a multiple of step and rounded to the nearest, halves to even
RoundTo(q, rest, step) ==
    LET base == q \div step
        low == q % step
    IN  IF 2 * low > step \/ (2 * low = step /\ rest # 0)
        THEN (base + 1) * step
        ELSE IF 2 * low = step /\ base % 2 = 1
             THEN (base + 1) * step
             ELSE base * step

\* the float32 quotient e / sum for e < sum, in units of 2^-26: 24 significant
\* digits from 0.25 upwards, cut off at 2^-26 below
DivF32(e, sum) ==
    LET qr == LongDiv(e, sum, 26, 0)
    IN  IF qr[1] >= Half THEN RoundTo(qr[1], qr[2], 4)
        ELSE IF 2 * qr[1] >= Half THEN RoundTo(qr[1], qr[2], 2)
        ELSE qr[1]

\* softmax(x): e_x = np.exp(x - np.max(x)); e_x / e_x.sum()
Softmax(x) ==
    LET max == IF x[1] >= x[2] THEN x[1] ELSE x[2]
        e_x == <<ExpF32(max - x[1]), ExpF32(max - x[2])>>
        sum == RoundSum(e_x[1] + e_x[2])
    IN  <<DivF32(e_x[1], sum), DivF32(e_x[2], sum)>>

\* np.argmax: the index of the first largest element
ArgMaxMutant(p) == IF p[2] >= p[1] THEN 1 ELSE 0
ArgMax(p) == IF p[2] > p[1] THEN 1 ELSE 0

\* label = {0: "NEGATIVE", 1: "POSITIVE"}
Label(index) == IF index = 0 THEN "NEGATIVE" ELSE "POSITIVE"

\* the loop "for i in result.values()" leaves the value of its last round
LastOutput(outputs) == outputs[Len(outputs)]

\* ---- inputs: two logits close to each other, or two whole numbers
NearTies == {<<a, b>> : a \in 0..MaxFine, b \in 0..MaxFine}
WholeLogits ==
    {<<(a + MaxWhole) * Whole, (b + MaxWhole) * Whole>> :
         a \in (0 - MaxWhole)..MaxWhole, b \in (0 - MaxWhole)..MaxWhole}
Outputs == NearTies \cup WholeLogits
EarlierOutputs == {<<0, Whole>>, <<Whole, 0>>}
InferResults ==
    {<<x>> : x \in Outputs} \cup {<<y, x>> : y \in EarlierOutputs, x \in Outputs}

\* tokenizer(...) and infer_request.infer(inputs=inputs)
InferRequest ==
    /\ spc = "idle"
    /\ \E outputs \in InferResults : infer_result' = outputs
    /\ spc' = "result"
    /\ probability' = <<>>
    /\ infer_label' = <<>>
    /\ UNCHANGED <<cvars, vvars, dvars, mvars, tvars, bvars>>

\* the loop over the outputs and the return of infer
InferReturn ==
    /\ spc = "result"
    /\ probability' = Softmax(LastOutput(infer_result))
    /\ infer_label' = <<Label(ArgMax(probability'))>>
    /\ spc' = "returned"
    /\ UNCHANGED infer_result
    /\ UNCHANGED <<cvars, vvars, dvars, mvars, tvars, bvars>>

\* infer called for the next text
InferNext ==
    /\ spc = "returned"
    /\ spc' = "idle"
    /\ UNCHANGED <<infer_result, probability, infer_label>>
    /\ UNCHANGED <<cvars, vvars, dvars, mvars, tvars, bvars>>

SInit ==
    /\ spc = "idle"
    /\ infer_result = <<>>
    /\ probability = <<>>
    /\ infer_label = <<>>

NextSentiment ==
    \/ InferRequest
    \/ InferReturn
    \/ InferNext

NInit == MInit /\ TInit /\ BInit /\ SInit

Init == CInit /\ VInit /\ DInit /\ NInit

NextDetection ==
    \/ Inference
    \/ ConvertCall
    \/ ConvertStep
    \/ ConvertReturn
    \/ ConvertAgain
    \/ ConvertBack

SpecDetection == Init /\ [][NextDetection]_vars

NextVisualize ==
    \/ BuildLabelsMap
    \/ VisualizeCall
    \/ VisualizeStep
    \/ VisualizeShow
    \/ VisualizeAgain

SpecVisualize == Init /\ [][NextVisualize]_vars

NextRenderer ==
    \/ NewCanvas
    \/ AddBoxCall

SpecRenderer == Init /\ [][NextRenderer]_vars

\* the notebooks are separate programs: one of them runs
NextNotebooks ==
    \/ vpc = "start" /\ dpc = "idle" /\ NextDetection
    \/ cpc = "idle" /\ dpc = "idle" /\ NextVisualize
    \/ cpc = "idle" /\ vpc = "start" /\ NextRenderer

SpecNotebooks == Init /\ [][NextNotebooks]_vars

NextDownload ==
    \/ ModelDir
    \/ DownloadCell
    \/ DownloadBin
    \/ DownloadAgain

NextCells ==
    \/ NextDownload
    \/ NextClassification
    \/ NextBert

SpecCells == Init /\ [][NextCells]_vars

SpecSentiment == Init /\ [][NextSentiment]_vars

\* the invocations of the two pipelines, on batches of several rows
NextConvertRuns ==
    \/ InferenceBatches
    \/ ConvertCall
    \/ ConvertStep
    \/ ConvertReturn
    \/ ConvertAgain

NextVisualizeRuns ==
    \/ BuildLabelsMap
    \/ VisualizeCallOneSize
    \/ VisualizeStep
    \/ VisualizeShow
    \/ VisualizeAgain

NextPipelines ==
    \/ vpc = "start" /\ NextConvertRuns
    \/ cpc = "idle" /\ NextVisualizeRuns

\* the interpreter goes on with the cell it is running: a step that can be
\* taken is taken
SpecPipelinesFair == Init /\ [][NextPipelines]_vars /\ WF_vars(NextPipelines)

----------------------------------------------------------------------------
(* Claims about convert_result_to_image (SpecDetection) *)

Started == cpc \in {"loop", "returned"}

\* the row of boxes a drawing was made from
Source(d) == At(boxes, d.idx)

\* C1: convert_result_to_image draws exactly the rows whose confidence is
\* strictly greater than the threshold, in batch order; with threshold 0.3 the
\* rows of scores 0.9, 0.4, 0.1 and one all-zero row give the two drawings of
\* scores 0.9 and 0.4.
C1_DetectionFilter ==
    Started =>
        LET kept == {j \in 0..(k - 1) : At(boxes, j)[Len(At(boxes, j))] > threshold}
        IN  /\ {rgb_image[p].idx : p \in 1..Len(rgb_image)} = kept
            /\ Len(rgb_image) = Cardinality(kept)
            /\ \A p \in 1..Len(rgb_image) : rgb_image[p].conf = At(boxes, rgb_image[p].idx)[5]
            /\ \A p \in 1..Len(rgb_image) : Len(At(boxes, rgb_image[p].idx)) = 5
            /\ \A p, q \in 1..Len(rgb_image) : p < q => rgb_image[p].idx < rgb_image[q].idx
            /\ (cpc = "returned" /\ mode = "fresh" /\ raw = ScenarioBatch /\ threshold = 30)
                   => [p \in 1..Len(rgb_image) |-> rgb_image[p].conf] = <<90, 40>>

C1_Witness ==
    /\ cpc = "returned"
    /\ mode = "fresh"
    /\ raw = ScenarioBatch
    /\ threshold = DefaultThreshold
    /\ Len(result[1]) = 2

C1_WitnessEqual ==
    /\ cpc = "returned"
    /\ \E j \in 1..Len(boxes) : boxes[j][5] = threshold
    /\ Len(rgb_image) > 0

\* C2 as stated: every row whose four coordinates are zero is removed before
\* rendering whatever its score, so none is drawn.
C2_ZeroCoordinatesRemoved ==
    (Started /\ mode = "fresh") =>
        /\ \A j \in 1..Len(boxes) : Coords(boxes[j]) # <<0, 0, 0, 0>>
        /\ \A p \in 1..Len(rgb_image) : Coords(Source(rgb_image[p])) # <<0, 0, 0, 0>>

\* C2 amended: a row is removed before rendering when its four coordinates and
\* its confidence are all zero; a row of zero coordinates with a non-zero
\* confidence is kept and, above the threshold, drawn as (0, 10)-(0, 10); no
\* rectangle (0, 0, 0, 0) is drawn.
C2_ZeroOnlyRowsRemoved ==
    (Started /\ mode = "fresh") =>
        /\ \A j \in 1..Len(boxes) : boxes[j] # <<0, 0, 0, 0, 0>>
        /\ \A j \in 1..Len(raw) :
               (Coords(raw[j]) = <<0, 0, 0, 0>> /\ raw[j][5] # 0) => raw[j] \in Range(boxes)
        /\ \A p \in 1..Len(rgb_image) : rgb_image[p].rect # <<0, 0, 0, 0>>
        /\ \A j \in 0..(k - 1) :
               (Coords(At(boxes, j)) = <<0, 0, 0, 0>> /\ At(boxes, j)[5] > threshold)
                   => \E p \in 1..Len(rgb_image) :
                          rgb_image[p].idx = j /\ rgb_image[p].rect = <<0, 10, 0, 10>>

C2_Witness ==
    /\ cpc = "returned"
    /\ mode = "fresh"
    /\ \E p \in 1..Len(rgb_image) : Coords(Source(rgb_image[p])) = <<0, 0, 0, 0>>
    /\ \E j \in 1..Len(raw) : raw[j] = <<0, 0, 0, 0, 0>>

\* exact bracket of a truncated product: v is int(c * real / resized), c >= 0
IsTrunc(v, c, real, resized) ==
    v * resized <= c * real /\ c * real < (v + 1) * resized

\* C5 as stated: every drawn coordinate is the scaled coordinate truncated.
C5_ScaledOnly ==
    Started =>
        \A p \in 1..Len(rgb_image) :
            LET r == rgb_image[p].rect
                b == Source(rgb_image[p])
            IN  /\ IsTrunc(r[1], b[1], shape[2], shape[4])
                /\ IsTrunc(r[3], b[3], shape[2], shape[4])
                /\ IsTrunc(r[2], b[2], shape[1], shape[3])
                /\ IsTrunc(r[4], b[4], shape[1], shape[3])

\* C5 amended: the two x coordinates are x * (real_w / resized_w) truncated; the
\* two y coordinates are max(y * (real_h / resized_h), 10) truncated, which is
\* the scaled coordinate truncated when this is at least 10 and 10 otherwise;
\* [10, 10, 50, 50] from 255x255 onto 510x510 gives [20, 20, 100, 100].
C5_GeometryNormalizer ==
    Started =>
        \A p \in 1..Len(rgb_image) :
            LET r == rgb_image[p].rect
                b == Source(rgb_image[p])
                YOk(v, c) == IF c * shape[1] < 10 * shape[3]
                             THEN v = 10
                             ELSE IsTrunc(v, c, shape[1], shape[3])
            IN  /\ IsTrunc(r[1], b[1], shape[2], shape[4])
                /\ IsTrunc(r[3], b[3], shape[2], shape[4])
                /\ YOk(r[2], b[2])
                /\ YOk(r[4], b[4])
                /\ (Coords(b) = <<10, 10, 50, 50>> /\ shape = <<510, 510, 255, 255>>)
                       => r = <<20, 20, 100, 100>>

C5_Witness ==
    /\ cpc = "returned"
    /\ shape = <<510, 510, 255, 255>>
    /\ \E p \in 1..Len(rgb_image) : rgb_image[p].rect = <<20, 20, 100, 100>>

C5_WitnessTruncated ==
    /\ cpc = "returned"
    /\ mode = "fresh"
    /\ \E p \in 1..Len(rgb_image) :
           /\ Source(rgb_image[p])[1] * shape[2] % shape[4] # 0
           /\ Source(rgb_image[p])[2] * shape[1] < 10 * shape[3]

\* C6: the drawn y_min is max(scaled y_min, 10) truncated and so at least 10; a
\* scaled y_min of 2 in an image of height 480 is drawn as 10.
C6_TopEdgeClamp ==
    Started =>
        \A p \in 1..Len(rgb_image) :
            LET y_min == rgb_image[p].rect[2]
                scaled == TruncDiv(Source(rgb_image[p])[2] * shape[1], shape[3])
            IN  /\ y_min >= 10
                /\ y_min = IF scaled > 10 THEN scaled ELSE 10
                /\ (Source(rgb_image[p])[2] = 2 /\ shape[1] = 480 /\ shape[3] = 480)
                       => y_min = 10

C6_Witness ==
    /\ cpc = "returned"
    /\ shape[1] = 480
    /\ \E p \in 1..Len(rgb_image) :
           Source(rgb_image[p])[2] = 2 /\ rgb_image[p].rect[2] = 10

\* the row of the first call that a drawing of the call back comes from
Original(d) == At(prev[1].boxes, prev[1].image[d.idx + 1].idx)

Within1(a, b) == a - b <= 1 /\ b - a <= 1

\* C7 as stated: scaled and scaled back, every coordinate is within 1 pixel of
\* the original.
C7_RoundTripAny ==
    (cpc = "returned" /\ mode = "back") =>
        \A p \in 1..Len(rgb_image) :
            \A q \in 1..4 : Within1(rgb_image[p].rect[q], Original(rgb_image[p])[q])

\* C7 amended: for integer coordinates and a real image at least as large as the
\* resized one on both axes, every x coordinate and every y coordinate that is
\* at least 10 comes back within 1 pixel and never above the original; a y
\* coordinate below 10 comes back as at least 10.
C7_RoundTripUpscaled ==
    (cpc = "returned" /\ mode = "back"
       /\ prev[1].shape[1] >= prev[1].shape[3] /\ prev[1].shape[2] >= prev[1].shape[4]) =>
        \A p \in 1..Len(rgb_image) :
            LET r == rgb_image[p].rect
                o == Original(rgb_image[p])
            IN  /\ Len(rgb_image) = Len(prev[1].image)
                /\ \A q \in {1, 3} : r[q] <= o[q] /\ o[q] - r[q] <= 1
                /\ \A q \in {2, 4} :
                       IF o[q] >= 10 THEN r[q] <= o[q] /\ o[q] - r[q] <= 1 ELSE r[q] >= 10

C7_Witness ==
    /\ cpc = "returned"
    /\ mode = "back"
    /\ prev[1].shape[1] > prev[1].shape[3]
    /\ prev[1].shape[2] > prev[1].shape[4]
    /\ \E p \in 1..Len(rgb_image) :
           /\ rgb_image[p].rect[1] = Original(rgb_image[p])[1] - 1
           /\ Original(rgb_image[p])[2] >= 10

\* C8: with the same batch and thresholds T1 <= T2, the rows drawn with T2 are
\* among those drawn with T1 and are not more numerous.
C8_ThresholdMonotonic ==
    (cpc = "returned" /\ mode = "again" /\ prev[1].threshold <= threshold) =>
        /\ boxes = prev[1].boxes
        /\ Len(rgb_image) <= Len(prev[1].image)
        /\ {rgb_image[p].idx : p \in 1..Len(rgb_image)}
               \subseteq {prev[1].image[p].idx : p \in 1..Len(prev[1].image)}

C8_Witness ==
    /\ cpc = "returned"
    /\ mode = "again"
    /\ prev[1].threshold < threshold
    /\ Len(rgb_image) > 0
    /\ Len(rgb_image) < Len(prev[1].image)

----------------------------------------------------------------------------
(* Claims about coco_labels_map and visualize_inference_result (SpecVisualize) *)

Called == vpc \in {"loop", "shown", "KeyError", "IndexError"}

num_detections == inference_result.num_detections
ClassOf(j) == At(inference_result.detection_classes, j)
ScoreOf(j) == At(inference_result.detection_scores, j)

\* C3 as stated: no detection is rendered whose score does not exceed the
\* confidence threshold (0.3, the only threshold of the notebooks).
C3_FilterBeforeRender ==
    Called =>
        \A p \in 1..Len(image_with_detection_boxex) :
            image_with_detection_boxex[p].label[2] > DefaultThreshold

\* C3 amended: visualize_inference_result applies no confidence filter; it
\* truncates to the maximum count and then renders: at every point of the loop
\* the detections of index 0..i-1 have all been rendered, each with its own
\* score, whatever that score is, and i never passes the truncated count.
C3_TruncateThenRender ==
    Called =>
        /\ Len(image_with_detection_boxex) = i
        /\ \A p \in 1..i : image_with_detection_boxex[p].label[2] = ScoreOf(p - 1)
        /\ (i > 0 => i <= detections_limit)

C3_Witness ==
    /\ vpc = "shown"
    /\ \E p \in 1..Len(shown[1]) : shown[1][p].label[2] <= DefaultThreshold

\* what the claim C4 calls the number of boxes to render
Wanted ==
    IF detections_limit_arg # <<>>
    THEN (IF detections_limit_arg[1] <= num_detections
          THEN detections_limit_arg[1] ELSE num_detections)
    ELSE num_detections

Finished == vpc \in {"shown", "KeyError", "IndexError"}

\* the p-th rendering is the detection of index p - 1
IsDetection(d, j) ==
    /\ d.label[2] = ScoreOf(j)
    /\ ClassOf(j) \in DOMAIN coco_labels_map
    /\ d.label[1] = coco_labels_map[ClassOf(j)]
    /\ d.point1[2] * 10 <= At(inference_result.detection_boxes, j)[1] * image[1]
    /\ d.point1[2] * 10 + 10 > At(inference_result.detection_boxes, j)[1] * image[1]

\* C4 as stated: exactly min(detections_limit, num_detections) boxes are
\* rendered (num_detections when the limit is None), the first ones of the batch.
C4_ExactCount ==
    Finished =>
        /\ Len(image_with_detection_boxex) = Wanted
        /\ \A p \in 1..Len(image_with_detection_boxex) :
               p - 1 < num_detections /\ IsDetection(image_with_detection_boxex[p], p - 1)

\* C4 amended: at most max(0, min(detections_limit, num_detections)) boxes are
\* rendered (max(0, num_detections) when the limit is None), exactly that many
\* when the invocation completes without a lookup error; the rendered
\* detections are the first ones of the batch, never an index at or beyond
\* num_detections.
C4_Truncation ==
    Called =>
        LET N == IF Wanted < 0 THEN 0 ELSE Wanted
        IN  /\ Len(image_with_detection_boxex) <= N
            /\ (vpc = "shown" => Len(image_with_detection_boxex) = N)
            /\ (vpc = "shown" => Len(shown[1]) = N)
            /\ vpc # "IndexError"
            /\ \A p \in 1..Len(image_with_detection_boxex) :
                   p - 1 < num_detections /\ IsDetection(image_with_detection_boxex[p], p - 1)

C4_Witness ==
    /\ vpc = "shown"
    /\ detections_limit_arg # <<>>
    /\ detections_limit_arg[1] > 0
    /\ detections_limit_arg[1] < num_detections
    /\ Len(shown[1]) = detections_limit_arg[1]

C4_WitnessNegative ==
    /\ vpc = "shown"
    /\ detections_limit_arg # <<>>
    /\ detections_limit_arg[1] < 0
    /\ num_detections > 0
    /\ Len(shown[1]) = 0

\* C9: the map built from n names with offset 1 has the keys 1..n, key j giving
\* the (j-1)-th name; a lookup outside 1..n is an error, not a label: from
\* ["cat", "dog"], 1 gives "cat", 2 gives "dog" and 0 raises.
C9_LabelMap ==
    vpc # "start" =>
        LET n == Len(coco_labels)
        IN  /\ DOMAIN coco_labels_map = 1..n
            /\ \A j \in 1..n : Lookup(coco_labels_map, j) = <<At(coco_labels, j - 1)>>
            /\ Lookup(coco_labels_map, 0) = <<>>
            /\ Lookup(coco_labels_map, n + 1) = <<>>
            /\ coco_labels = <<"cat", "dog">> =>
                   /\ Lookup(coco_labels_map, 1) = <<"cat">>
                   /\ Lookup(coco_labels_map, 2) = <<"dog">>
            /\ \A p \in 1..Len(image_with_detection_boxex) :
                   /\ ClassOf(p - 1) \in 1..n
                   /\ image_with_detection_boxex[p].label[1] = At(coco_labels, ClassOf(p - 1) - 1)
            /\ vpc = "KeyError" => ClassOf(i) \notin 1..n

C9_Witness ==
    /\ vpc = "KeyError"
    /\ coco_labels = <<"cat", "dog">>
    /\ ClassOf(i) = 0
    /\ i = 1
    /\ image_with_detection_boxex[1].label[1] = "dog"

Missing(j) == ClassOf(j) \notin DOMAIN coco_labels_map

C10_Ended ==
    /\ vpc = "KeyError" =>
           /\ i < detections_limit
           /\ Missing(i)
           /\ shown = <<>>
           /\ Len(image_with_detection_boxex) = i
           /\ \A j \in 0..(i - 1) : ~Missing(j)
    /\ vpc = "shown" => \A j \in 0..(detections_limit - 1) : ~Missing(j)

C10_Step ==
    /\ (vpc = "loop" /\ i < detections_limit /\ Missing(i)) =>
           (vpc' = "KeyError" /\ shown' = <<>>
              /\ image_with_detection_boxex' = image_with_detection_boxex)
    /\ vpc = "KeyError" => UNCHANGED vvars

\* C10: when the detection about to be rendered has a class index absent from
\* the label map, the invocation ends with the lookup error: the error is not
\* caught or retried, no box is drawn for that detection or a later one, and
\* plt.imshow is not called, so no annotated image is produced.
C10_LabelMissPropagates == [](C10_Ended) /\ [][C10_Step]_vars

C10_Witness ==
    /\ vpc = "KeyError"
    /\ i = 1
    /\ detections_limit = 2
    /\ Len(image_with_detection_boxex) = 1
    /\ shown = <<>>

----------------------------------------------------------------------------
(* Claims about the label map, the renderer and the two pipelines *)

C11_SameLabels ==
    (vmode = "again" /\ Called) =>
        \A p \in 1..Len(image_with_detection_boxex) :
            /\ p <= Len(vprev[1])
            /\ image_with_detection_boxex[p].label[1] = vprev[1][p].label[1]

C11_MapUnchanged == vpc # "start" => coco_labels_map' = coco_labels_map

\* C11: the label map is read-only after its construction: no step of
\* visualize_inference_result or add_detection_box changes an entry of it, and
\* a second invocation finds for each index the string the first one found.
C11_LabelMapReadOnly == [](C11_SameLabels) /\ [][C11_MapUnchanged]_vars

C11_Witness ==
    /\ vpc = "shown"
    /\ vmode = "again"
    /\ Len(shown[1]) = 2
    /\ shown[1][1].label[1] = "cat"
    /\ shown[1][2].label[1] = "dog"
    /\ vprev[1][2].label[1] = "dog"

\* C12: every box passed to add_detection_box is the model's box
\* [ymin, xmin, ymax, xmax] multiplied by [height, width, height, width] of the
\* image being annotated; the unscaled box is never passed.
C12_RescaleBeforeRender ==
    Called =>
        \A p \in 1..Len(image_with_detection_boxex) :
            LET b == At(inference_result.detection_boxes, p - 1)
                d == image_with_detection_boxex[p]
            IN  /\ d.box[1] = b[1] * image[1]
                /\ d.box[2] = b[2] * image[2]
                /\ d.box[3] = b[3] * image[1]
                /\ d.box[4] = b[4] * image[2]
                /\ d.box # b
                /\ d.point1 = <<TruncDiv(b[2] * image[2], 10), TruncDiv(b[1] * image[1], 10)>>
                /\ d.point2 = <<TruncDiv(b[4] * image[2], 10), TruncDiv(b[3] * image[1], 10)>>

C12_Witness ==
    /\ vpc = "shown"
    /\ image = <<48, 64>>
    /\ Len(shown[1]) = 2
    /\ shown[1][1].box = <<48, 128, 288, 576>>

EventsOf(kind) == SelectSeq(events, LAMBDA e : e.ev = kind)

\* C13: detections are rendered in batch order; for each one the normalized
\* boxes exist before its label lookup, which comes before its call of
\* add_detection_box, and the call for detection i has returned before
\* anything is done for detection i + 1.
C13_PerDetectionOrder ==
    Called =>
        /\ events[1].ev = "normalize"
        /\ \A e \in 2..Len(events) : events[e].ev # "normalize"
        /\ \A e \in 1..Len(events) :
               events[e].ev = "render" =>
                   /\ e > 2
                   /\ events[e - 1] = [ev |-> "lookup", idx |-> events[e].idx]
        /\ \A m \in 1..Len(EventsOf("render")) : EventsOf("render")[m].idx = m - 1
        /\ \A m \in 1..Len(EventsOf("lookup")) : EventsOf("lookup")[m].idx = m - 1
        /\ Len(EventsOf("render")) = Len(image_with_detection_boxex)
        /\ Len(EventsOf("lookup")) - Len(EventsOf("render")) \in {0, 1}
        /\ (Len(EventsOf("lookup")) > Len(EventsOf("render"))) <=> (vpc = "KeyError")

C13_Witness ==
    /\ vpc = "shown"
    /\ Len(events) = 5
    /\ events[5] = [ev |-> "render", idx |-> 1]

\* Claim C14 as the specification states it: a repeated invocation with the
\* same inputs gives the same annotated image, box colours included.
C14_Deterministic ==
    /\ (vpc = "shown" /\ vmode = "again") => shown = vprev
    /\ (cpc = "returned" /\ mode = "again" /\ threshold = prev[1].threshold) =>
           rgb_image = prev[1].image

\* two drawings of add_detection_box that differ at most in the box colour
SameButBoxColor(d, e) ==
    /\ d.box = e.box
    /\ d.point1 = e.point1
    /\ d.point2 = e.point2
    /\ d.label = e.label
    /\ d.line_thickness = e.line_thickness
    /\ Len(d.ops) = Len(e.ops)
    /\ \A q \in 1..Len(d.ops) :
           /\ d.ops[q].op = e.ops[q].op
           /\ d.ops[q].pt1 = e.ops[q].pt1
           /\ d.ops[q].pt2 = e.ops[q].pt2
           /\ d.ops[q].thickness = e.ops[q].thickness
           /\ d.ops[q].op = "putText" => d.ops[q].color = e.ops[q].color

\* C14: two invocations with the same inputs draw the same boxes, labels and
\* texts at the same places with the same thicknesses; convert_result_to_image
\* gives the identical image, while add_detection_box and
\* visualize_inference_result agree in everything but the box colour, which is
\* drawn at random in every call.
C14_DeterministicUpToColour ==
    /\ (vpc = "shown" /\ vmode = "again") =>
           /\ Len(shown[1]) = Len(vprev[1])
           /\ \A p \in 1..Len(shown[1]) : SameButBoxColor(shown[1][p], vprev[1][p])
    /\ (cpc = "returned" /\ mode = "again" /\ threshold = prev[1].threshold) =>
           rgb_image = prev[1].image
    /\ dpc # "idle" =>
           \A p, q \in 1..Len(heap[canvas]) :
               (heap[canvas][p].box = heap[canvas][q].box
                    /\ heap[canvas][p].label = heap[canvas][q].label) =>
                   SameButBoxColor(heap[canvas][p], heap[canvas][q])

C14_Witness ==
    /\ vpc = "shown"
    /\ vmode = "again"
    /\ Len(shown[1]) = 2
    /\ shown[1][1].color # vprev[1][1].color
    /\ shown[1][2].color = vprev[1][2].color

\* Claim C15 as the specification states it: both entry points return the
\* annotated image.
C15_ReturnsImage ==
    /\ vpc = "shown" => vreturn = <<image_with_detection_boxex>>
    /\ cpc = "returned" => result = <<rgb_image>>

\* C15: convert_result_to_image returns the annotated image;
\* visualize_inference_result hands the annotated image to plt.imshow and
\* returns None.
C15_ReturnOrShow ==
    /\ cpc = "returned" => result = <<rgb_image>>
    /\ vpc = "shown" =>
           /\ vreturn = <<>>
           /\ shown = <<image_with_detection_boxex>>

C15_Witness ==
    /\ vpc = "shown"
    /\ vmode = "fresh"
    /\ Len(shown[1]) = 1
    /\ vreturn = <<>>

\* C16: add_detection_box draws into the buffer it is given and returns that
\* buffer: no other buffer comes to exist, the reference the caller holds
\* after any chain of calls is the buffer of the first call, and every box
\* drawn so far is in it; the same holds of the buffer that
\* visualize_inference_result passes for each detection.
C16_InPlace ==
    /\ dpc # "idle" =>
           /\ Len(heap) = 1
           /\ canvas = 1
           /\ Len(heap[1]) = ncalls
    /\ Called => Len(image_with_detection_boxex) = i

C16_Witness ==
    /\ dpc = "ready"
    /\ ncalls = 2
    /\ canvas = 1
    /\ Len(heap[1]) = 2
    /\ heap[1][1].label = NoLabel
    /\ heap[1][2].label # NoLabel

\* the thicknesses of one drawing agree with the formula of the code for an
\* image of the shape sh
ThicknessOk(d, sh) ==
    LET t == d.line_thickness
        n == sh[1] + sh[2]
    IN  /\ t >= 1
        /\ 1000 * (t - 1) - n <= 500
        /\ n - 1000 * (t - 1) <= 500
        /\ (1000 * (t - 1) - n \in {500, 0 - 500}) => (t - 1) % 2 = 0
        /\ d.ops[1].thickness = t
        /\ \A q \in 1..Len(d.ops) :
               d.ops[q].op = "putText" =>
                   /\ d.ops[q].thickness >= 1
                   /\ d.ops[q].thickness = (IF t - 1 > 1 THEN t - 1 ELSE 1)

\* C17: the outline thickness of every box is round(0.002 * (height + width) / 2) + 1,
\* that is one more than (height + width) / 1000 rounded to the nearest integer
\* (halves to the even one), and is at least 1; the thickness of the label text
\* is max(thickness - 1, 1), at least 1 as well.
C17_LineThickness ==
    /\ dpc # "idle" =>
           \A p \in 1..Len(heap[canvas]) : ThicknessOk(heap[canvas][p], canvas_shape)
    /\ Called =>
           \A p \in 1..Len(image_with_detection_boxex) :
               ThicknessOk(image_with_detection_boxex[p], image)

C17_Witness ==
    /\ dpc = "ready"
    /\ canvas_shape = <<200, 300>>
    /\ ncalls = 1
    /\ heap[1][1].line_thickness = 1
    /\ Len(heap[1][1].ops) = 3
    /\ heap[1][1].ops[3].thickness = 1

C17_WitnessThick ==
    /\ dpc = "ready"
    /\ canvas_shape = <<700, 800>>
    /\ ncalls = 1
    /\ heap[1][1].line_thickness = 3
    /\ Len(heap[1][1].ops) = 3
    /\ heap[1][1].ops[3].thickness = 2

\* the drawing calls of one add_detection_box are the ones claim C18 lists
StepsOk(d) ==
    LET outline == d.ops[1]
    IN  /\ Len(d.ops) >= 1
        /\ outline.op = "rectangle"
        /\ outline.pt1 = d.point1
        /\ outline.pt2 = d.point2
        /\ outline.color = d.color
        /\ IF d.label \in {NoLabel, EmptyLabel}
           THEN Len(d.ops) = 1
           ELSE /\ Len(d.ops) = 3
                /\ d.ops[2].op = "filled"
                /\ d.ops[2].color = d.color
                /\ d.ops[2].pt1 = d.point1
                /\ d.ops[2].pt2[1] = d.point1[1] + TextSize(d.label, d.line_thickness)[1]
                /\ d.point1[2] - d.ops[2].pt2[2] = TextSize(d.label, d.line_thickness)[2] + 3
                /\ d.ops[3].op = "putText"
                /\ d.ops[3].pt1 = <<d.point1[1], d.point1[2] - 3>>
                /\ d.ops[3].color = FontColor

\* C18: with a label add_detection_box draws the outline, then a filled
\* rectangle in the box colour from the top-left corner of the box up to the
\* text height plus 3 above it, then the label text, in this order; with the
\* label None or "" it draws the outline only.
C18_LabelSteps ==
    /\ dpc # "idle" => \A p \in 1..Len(heap[canvas]) : StepsOk(heap[canvas][p])
    /\ Called =>
           \A p \in 1..Len(image_with_detection_boxex) :
               StepsOk(image_with_detection_boxex[p])

C18_Witness ==
    /\ dpc = "ready"
    /\ ncalls = 2
    /\ heap[1][1].label = EmptyLabel
    /\ Len(heap[1][1].ops) = 1
    /\ heap[1][2].label = <<"cat", 90>>
    /\ heap[1][2].ops[2].op = "filled"
    /\ heap[1][2].ops[3].op = "putText"

\* Claim C19 as the specification states it: no box of a wrong element count
\* is gone through without the invocation failing.
C19_MalformedAlwaysRaises ==
    /\ cpc \in {"loop", "returned", "ValueError"} =>
           \A j \in 0..(k - 1) : Len(At(boxes, j)) = 5
    /\ dpc # "idle" => \A p \in 1..Len(heap[canvas]) : Len(heap[canvas][p].box) = 4

C19_NothingDrawnForMalformed ==
    /\ cpc \in {"loop", "returned", "ValueError"} =>
           /\ \A p \in 1..Len(rgb_image) : Len(At(boxes, rgb_image[p].idx)) = 5
           /\ \A j \in 0..(k - 1) :
                  Len(At(boxes, j)) # 5 => At(boxes, j)[Len(At(boxes, j))] <= threshold
    /\ cpc = "ValueError" =>
           /\ k < Len(boxes)
           /\ Len(At(boxes, k)) # 5
           /\ At(boxes, k)[Len(At(boxes, k))] > threshold
           /\ \A p \in 1..Len(rgb_image) : rgb_image[p].idx < k
           /\ result = <<>>
    /\ dpc # "idle" =>
           /\ \A p \in 1..Len(heap[canvas]) : Len(heap[canvas][p].box) = 4
           /\ Len(heap[canvas]) = ncalls

C19_Terminal ==
    /\ cpc = "ValueError" => UNCHANGED cvars
    /\ dpc = "ValueError" => UNCHANGED dvars
    /\ (dpc # "ValueError" /\ dpc' = "ValueError") => heap' = heap

\* C19: add_detection_box raises an error for every box that has not 4
\* elements, before it draws anything; convert_result_to_image raises an error
\* for a row that has not 4 coordinates and a confidence only when the last
\* element of the row is above the threshold, before it draws anything for the
\* row, and passes over such a row without an error otherwise; after the error
\* the invocation does nothing more.
C19_MalformedRaisesWhenDrawn ==
    [](C19_NothingDrawnForMalformed) /\ [][C19_Terminal]_vars

C19_Witness ==
    /\ cpc = "ValueError"
    /\ k = 1
    /\ Len(At(boxes, 0)) = 6
    /\ At(boxes, 0)[6] = 10
    /\ At(boxes, 1)[6] = 90
    /\ threshold = DefaultThreshold
    /\ rgb_image = <<>>

C19_WitnessRenderer ==
    /\ dpc = "ValueError"
    /\ ncalls = 1
    /\ Len(heap[canvas]) = 1

\* the inputs of visualize_inference_result ask for no detection
NothingToRender ==
    \/ num_detections = 0
    \/ detections_limit_arg # <<>> /\ detections_limit_arg[1] <= 0

\* no row of the batch is above the threshold (an empty batch included)
NothingPasses ==
    \A j \in 0..(Len(boxes) - 1) : At(boxes, j)[Len(At(boxes, j))] <= threshold

\* C20: when the batch is empty or no row of it is above the threshold,
\* convert_result_to_image raises no error, can always go on to its return and
\* returns an image without a box or a label; when num_detections is 0 or the
\* limit is 0 or less, visualize_inference_result raises no error, goes on
\* to plt.imshow and shows an image without a box or a label.
C20_EmptyResultValid ==
    /\ (cpc \in {"loop", "returned", "ValueError"} /\ NothingPasses) =>
           /\ cpc # "ValueError"
           /\ rgb_image = <<>>
           /\ cpc = "loop" => ENABLED (ConvertStep \/ ConvertReturn)
           /\ cpc = "returned" => result = << <<>> >>
    /\ (Called /\ NothingToRender) =>
           /\ vpc \in {"loop", "shown"}
           /\ image_with_detection_boxex = <<>>
           /\ events = << [ev |-> "normalize", idx |-> 0 - 1] >>
           /\ vpc = "loop" => ENABLED VisualizeShow
           /\ vpc = "shown" => shown = << <<>> >>

C20_Witness ==
    /\ cpc = "returned"
    /\ Len(boxes) = 2
    /\ threshold = 40
    /\ At(boxes, 0)[5] = 40
    /\ result = << <<>> >>

C20_WitnessEmptyBatch ==
    /\ cpc = "returned"
    /\ Len(raw) = 2
    /\ boxes = <<>>
    /\ result = << <<>> >>

C20_WitnessNoDetections ==
    /\ vpc = "shown"
    /\ Len(inference_result.detection_classes) >= 1
    /\ detections_limit_arg # <<>>
    /\ detections_limit_arg[1] <= 0
    /\ shown = << <<>> >>

\* C21: the pipelines draw on a buffer of their own (np.copy(image) in
\* visualize_inference_result, the result of cv2.cvtColor in
\* convert_result_to_image): the image the caller passed has no box and no
\* label drawn on it in any state, whatever was rendered, after a repeated
\* invocation and after an invocation that ended with an error.
C21_CallerImageUnchanged ==
    /\ image_buffer = <<>>
    /\ bgr_image = <<>>
    /\ Called => copy_ref # 1
    /\ cpc \in {"loop", "returned", "ValueError"} => rgb_ref # 1

C21_Witness ==
    /\ vpc = "KeyError"
    /\ vmode = "fresh"
    /\ Len(image_with_detection_boxex) = 1
    /\ image_buffer = <<>>

C21_WitnessConvert ==
    /\ cpc = "returned"
    /\ mode = "again"
    /\ Len(rgb_image) = 2
    /\ bgr_image = <<>>

\* the number of rendering steps visualize_inference_result makes at most
MaxSteps == IF Wanted > 0 THEN Wanted ELSE 0

C22_NoPartialResult ==
    /\ Called =>
           /\ i <= MaxSteps
           /\ Len(image_with_detection_boxex) <= i
           /\ Len(EventsOf("render")) <= MaxSteps
           /\ vpc # "shown" => shown = <<>>
           /\ vpc = "shown" =>
                  /\ i = MaxSteps
                  /\ Len(shown[1]) = MaxSteps
    /\ cpc \in {"loop", "returned", "ValueError"} =>
           /\ k <= Len(boxes)
           /\ Len(rgb_image) <= k
           /\ cpc # "returned" => result = <<>>
           /\ cpc = "returned" =>
                  /\ k = Len(boxes)
                  /\ result = <<rgb_image>>
                  /\ \A j \in 0..(Len(boxes) - 1) :
                         At(boxes, j)[Len(At(boxes, j))] > threshold =>
                             \E p \in 1..Len(rgb_image) : rgb_image[p].idx = j

\* a loop is left only for the end of the invocation
C22_LoopExit ==
    /\ (cpc = "loop" /\ cpc' # "loop") => cpc' \in {"returned", "ValueError"}
    /\ (vpc = "loop" /\ vpc' # "loop") => vpc' \in {"shown", "KeyError", "IndexError"}

\* and no invocation stays in its loop for ever
C22_Terminates ==
    /\ [][C22_LoopExit]_vars
    /\ []<>(cpc # "loop")
    /\ []<>(vpc # "loop")

\* C22: every invocation comes to its end (the return, plt.imshow, or an
\* error); visualize_inference_result makes at most min(limit, num_detections)
\* rendering steps (none when that is 0 or less) and
\* convert_result_to_image at most one per row; the image is returned or shown
\* only when the loop has consumed all detections, every retained one
\* rendered, and nothing is returned or shown before that.
C22_RunToCompletion == [](C22_NoPartialResult) /\ C22_Terminates

C22_Witness ==
    /\ vpc = "loop"
    /\ i = 1
    /\ detections_limit = 2
    /\ Len(image_with_detection_boxex) = 1
    /\ shown = <<>>

C22_WitnessConvert ==
    /\ cpc = "loop"
    /\ k = 1
    /\ Len(boxes) = 2
    /\ Len(rgb_image) = 1
    /\ At(boxes, 1)[5] > threshold
    /\ result = <<>>

\* C23: in every box convert_result_to_image draws, y_min and y_max are both
\* at least 10, so the label anchor (x_min, y_min - 10) has no negative y; x_min
\* and x_max are the scaled x coordinates truncated, below 10 where the scaled
\* value is.
C23_ClampBothY ==
    Started =>
        \A p \in 1..Len(rgb_image) :
            LET r == rgb_image[p].rect
                b == Source(rgb_image[p])
            IN  /\ r[2] >= TopMargin
                /\ r[4] >= TopMargin
                /\ b[2] * shape[1] < TopMargin * shape[3] => r[2] = TopMargin
                /\ b[4] * shape[1] < TopMargin * shape[3] => r[4] = TopMargin
                /\ r[1] = TruncDiv(b[1] * shape[2], shape[4])
                /\ r[3] = TruncDiv(b[3] * shape[2], shape[4])
                /\ conf_labels <=> rgb_image[p].text # <<>>
                /\ conf_labels =>
                       /\ rgb_image[p].text = <<r[1], r[2] - 10>>
                       /\ rgb_image[p].text[2] >= 0

C23_Witness ==
    /\ cpc = "returned"
    /\ mode = "fresh"
    /\ conf_labels
    /\ Len(rgb_image) = 1
    /\ Source(rgb_image[1])[4] * shape[1] < TopMargin * shape[3]
    /\ rgb_image[1].rect[4] = 10
    /\ rgb_image[1].rect[1] < 10
    /\ rgb_image[1].rect[3] < 10
    /\ rgb_image[1].rect[1] > 0
    /\ rgb_image[1].text[2] = 0

\* a row of the model output with an entry that is not zero
NonZeroRow(j) == \E p \in 1..Len(raw[j]) : raw[j][p] # 0

\* how many rows of raw[1..j] have an entry that is not zero
KeptUpTo(j) == Cardinality({m \in 1..j : NonZeroRow(m)})

\* C24: the rows handed to convert_result_to_image are the rows of the model
\* output that have an entry which is not zero, in the order of the output: a
\* row is dropped if and only if its four coordinates and its confidence are
\* all zero, and a row of zero coordinates with a confidence, or of a zero
\* confidence with coordinates, is kept.
C24_ZeroRowRemoval ==
    (cpc # "idle" /\ mode # "back") =>
        /\ Len(boxes) = KeptUpTo(Len(raw))
        /\ \A j \in 1..Len(raw) : NonZeroRow(j) => boxes[KeptUpTo(j)] = raw[j]
        /\ \A j \in 1..Len(boxes) : boxes[j] # <<0, 0, 0, 0, 0>>

C24_Witness ==
    /\ cpc = "inferred"
    /\ raw = << <<0, 0, 0, 0, 0>>, <<10, 10, 50, 50, 0>> >>
    /\ boxes = << <<10, 10, 50, 50, 0>> >>

C24_WitnessOrder ==
    /\ cpc = "inferred"
    /\ raw = << <<0, 0, 0, 0, 30>>, <<10, 10, 50, 50, 0>> >>
    /\ boxes = raw

\* C25: a limit of 0 is not taken for None: it renders no detection, and so
\* does a negative limit; a limit above num_detections renders num_detections
\* detections, as None does.
C25_LimitEdgeCases ==
    /\ Called =>
           /\ detections_limit_arg = <<0>> => detections_limit = 0
           /\ (detections_limit_arg # <<>> /\ detections_limit_arg[1] <= 0) =>
                  /\ i = 0
                  /\ image_with_detection_boxex = <<>>
                  /\ EventsOf("lookup") = <<>>
           /\ (detections_limit_arg # <<>> /\ detections_limit_arg[1] > num_detections) =>
                  detections_limit = num_detections
           /\ detections_limit_arg = <<>> => detections_limit = num_detections
    /\ vpc = "shown" =>
           /\ (detections_limit_arg # <<>> /\ detections_limit_arg[1] <= 0) =>
                  shown = << <<>> >>
           /\ (detections_limit_arg = <<>> \/ detections_limit_arg[1] > num_detections) =>
                  /\ Len(shown[1]) = num_detections
                  /\ \A p \in 1..num_detections : IsDetection(shown[1][p], p - 1)

C25_Witness ==
    /\ vpc = "shown"
    /\ detections_limit_arg = <<0>>
    /\ num_detections = 2
    /\ shown = << <<>> >>

C25_WitnessNegative ==
    /\ vpc = "shown"
    /\ detections_limit_arg = <<0 - 1>>
    /\ num_detections = 2
    /\ shown = << <<>> >>

C25_WitnessLarge ==
    /\ vpc = "shown"
    /\ detections_limit_arg = <<3>>
    /\ num_detections = 2
    /\ Len(shown[1]) = 2

\* Claim C26: whatever base_model_dir held before, when the download cell
\* has completed the model's .xml and .bin are both there, and a cell that
\* found both there has called download_file for neither.
C26_BothFilesAfterCell ==
    mpc = "done" =>
        /\ ModelFiles \subseteq model_dir
        /\ printed => downloads = <<>>

\* C27: when the cells of the classification notebook have run in order and
\* the conversion cell has not failed, the IR file exists when the checking
\* cell tests it, whatever model/ held before: the cell prints that the IR
\* model already exists and never runs the command of mo_command.
C27_CheckAlwaysFindsIR ==
    /\ tpc \in {"converted", "checked"} => ir_path \in tf_files
    /\ tpc = "checked" => message = "exists"
    /\ message # "mo_command"
    /\ tpc # "checked" => message = ""

C27_Witness ==
    /\ tpc = "checked"
    /\ message = "exists"
    /\ ir_path \in tf_files

\* the conversion runs only in a cell that found no IR file
C28_Step ==
    /\ conversions' # conversions =>
           /\ ir_model_xml \notin bert_files
           /\ conversions' = conversions + 1
           /\ model' = <<"converted">>
    /\ (bpc = "cell" /\ bpc' = "done" /\ ir_model_xml \in bert_files) =>
           /\ model' = <<"read">>
           /\ conversions' = conversions
    /\ ir_model_xml \in bert_files => ir_model_xml \in bert_files'

C28_AfterCell ==
    /\ conversions <= 1
    /\ bpc = "done" =>
           /\ model # <<>>
           /\ ir_model_xml \in bert_files
    /\ (bpc = "cell" /\ bruns > 1) =>
           /\ model # <<>>
           /\ ir_model_xml \in bert_files

Logit(index) == LastOutput(infer_result)[index + 1]

\* Claim C29 as stated: infer returns "POSITIVE" exactly when the logit of
\* index 1 is strictly greater than the logit of index 0.
C29_PositiveIffGreater ==
    spc = "returned" =>
        /\ infer_label \in {<<"POSITIVE">>, <<"NEGATIVE">>}
        /\ infer_label = <<"POSITIVE">> <=> Logit(1) > Logit(0)

\* C29: infer returns "POSITIVE" or "NEGATIVE", decided on the last output;
\* "POSITIVE" exactly when the float32 softmax value of index 1 is strictly
\* greater than that of index 0, which needs the logit of index 1 to be the
\* greater one and is certain when it is greater by 1 or more; equal logits
\* give "NEGATIVE", and so do logits that differ by no more than 2^-25, where
\* exp of the difference is 1.0 in float32 and the two softmax values are equal.
C29_SentimentLabel ==
    spc = "returned" =>
        /\ infer_label \in {<<"POSITIVE">>, <<"NEGATIVE">>}
        /\ infer_label = <<"POSITIVE">> <=> probability[2] > probability[1]
        /\ infer_label = <<"POSITIVE">> => Logit(1) > Logit(0)
        /\ Logit(1) <= Logit(0) => infer_label = <<"NEGATIVE">>
        /\ Logit(1) - Logit(0) >= Whole => infer_label = <<"POSITIVE">>
        /\ (Logit(1) > Logit(0) /\ Logit(1) - Logit(0) <= 4) =>
               /\ probability[1] = probability[2]
               /\ infer_label = <<"NEGATIVE">>
        /\ Logit(1) - Logit(0) > 4 => infer_label = <<"POSITIVE">>

C29_Witness ==
    /\ spc = "returned"
    /\ Len(infer_result) = 2
    /\ infer_result[1] = <<Whole, 0>>
    /\ infer_result[2] = <<3, 7>>
    /\ probability = <<Half, Half>>
    /\ infer_label = <<"NEGATIVE">>

C29_WitnessPositive ==
    /\ spc = "returned"
    /\ infer_result = << <<3, 8>> >>
    /\ infer_label = <<"POSITIVE">>

====
